---------------------------- MODULE Spec2Model ----------------------------
(***************************************************************************)
(* A model of the YouTube video Q&A bot: the settings loader (config.py),  *)
(* the video source adapter (youtube_client.py), the chunker               *)
(* (transcript_loader.py), the summarizer (summarizer.py), the knowledge   *)
(* base and question answerer (qa_chain.py) and the Streamlit page         *)
(* (app.py).                                                               *)
(*                                                                         *)
(* Python strings are sequences of one-character strings.  A Python value  *)
(* that may be None, a str, an int or a dict is a record tagged by "t".    *)
(* Python dicts keyed by video id are functions whose DOMAIN is the set of *)
(* keys.  The external services (YouTube Data API, transcript API, text    *)
(* splitter, OpenAI embedding and chat models) are inputs of the actions,  *)
(* drawn from small sets of the responses they can give.                   *)
(***************************************************************************)
EXTENDS Integers, Sequences, FiniteSets, TLC

VARIABLES
    \* ---- youtube_client.parse_video_id, called on its own
    url_or_id,        \* the argument of the call
    parsed,           \* what the call returned
    parse_pc,         \* "start" before the call, "done" after it
    \* ---- config.py
    env,              \* os.environ: variable name -> None (unset) or Str
    _SETTINGS,        \* the module global of config.py
    cfg_last,         \* the last configuration operation and its outcome
    cfg_hist,         \* history of the get_settings calls of this process
    \* ---- qa_chain.py and app.py
    videos,           \* st.session_state.videos
    selected_video,   \* st.session_state.selected_video (None: key absent)
    qa_last_answer,   \* st.session_state.qa_last_answer
    _indexes,         \* VideoKnowledgeBase._indexes
    last,             \* what the last operation did: outcome, external calls
    kb_hist,          \* history of the answer_question calls on the instance
    app_hist          \* history of the session: the origin of the last Q&A

parseVars == <<url_or_id, parsed, parse_pc>>
cfgVars   == <<env, _SETTINGS, cfg_last, cfg_hist>>
appVars   == <<videos, selected_video, qa_last_answer, _indexes, last,
              kb_hist, app_hist>>
vars      == <<parseVars, cfgVars, appVars>>

(***************************************************************************)
(* Python values.                                                          *)
(***************************************************************************)
None == [t |-> "None"]

Str(s) == [t |-> "str", v |-> s]

\* Python truthiness of an Optional[str]: None and "" are falsy.
Truthy(x) == x.t = "str" /\ x.v # <<>>

\* The characters str.strip() removes.
Whitespace == {" ", "\t", "\n", "\r"}

RECURSIVE LStrip(_)
LStrip(s) == IF s # <<>> /\ Head(s) \in Whitespace THEN LStrip(Tail(s)) ELSE s

RECURSIVE RStrip(_)
RStrip(s) ==
    IF s # <<>> /\ s[Len(s)] \in Whitespace
    THEN RStrip(SubSeq(s, 1, Len(s) - 1))
    ELSE s

\* str.strip()
Strip(s) == RStrip(LStrip(s))

\* c repeated n times
Run(c, n) == [i \in 1..n |-> c]

(***************************************************************************)
(* youtube_client.py: parse_video_id                                       *)
(***************************************************************************)
\* The length of a video id: the {11} of both regular expressions.
IdLen == 11

\* The character class [0-9A-Za-z_-].
IdChars ==
    {"0", "1", "2", "3", "4", "5", "6", "7", "8", "9",
     "A", "B", "C", "D", "E", "F", "G", "H", "I", "J", "K", "L", "M",
     "N", "O", "P", "Q", "R", "S", "T", "U", "V", "W", "X", "Y", "Z",
     "a", "b", "c", "d", "e", "f", "g", "h", "i", "j", "k", "l", "m",
     "n", "o", "p", "q", "r", "s", "t", "u", "v", "w", "x", "y", "z",
     "_", "-"}

\* re.fullmatch(r"[0-9A-Za-z_-]{11}", s)
FullMatchId(s) == Len(s) = IdLen /\ \A k \in 1..Len(s) : s[k] \in IdChars

\* The length of the prefix (?:v=|\/) matched at position i of s, 0 if none.
PrefixAt(s, i) ==
    IF i + 1 <= Len(s) /\ s[i] = "v" /\ s[i + 1] = "=" THEN 2
    ELSE IF i <= Len(s) /\ s[i] = "/" THEN 1
    ELSE 0

\* _VIDEO_ID_PATTERN matches at position i of s.
MatchAt(s, i) ==
    LET p == PrefixAt(s, i)
    IN  /\ p > 0
        /\ i + p + IdLen - 1 <= Len(s)
        /\ \A k \in 0..(IdLen - 1) : s[i + p + k] \in IdChars

\* group(1) of the match at position i.
GroupAt(s, i) == SubSeq(s, i + PrefixAt(s, i), i + PrefixAt(s, i) + IdLen - 1)

\* _VIDEO_ID_PATTERN.search(s): the leftmost match, as match.group(1) or None.
_VIDEO_ID_PATTERN(s) ==
    LET hits == {i \in 1..Len(s) : MatchAt(s, i)}
    IN  IF hits = {} THEN None
        ELSE Str(GroupAt(s, CHOOSE i \in hits : \A j \in hits : i <= j))

parse_video_id(input) ==
    IF input = <<>> THEN None
    ELSE LET candidate == Strip(input)
         IN  IF Len(candidate) = IdLen /\ FullMatchId(candidate)
             THEN Str(candidate)
             ELSE _VIDEO_ID_PATTERN(candidate)

(***************************************************************************)
(* Inputs of parse_video_id: concatenations of at most MaxTokens tokens.   *)
(***************************************************************************)
MaxTokens == 4

IdA == Run("a", IdLen)
IdB == Run("b", IdLen)

Tokens ==
    { <<"/">>, <<"v", "=">>, <<"?">>, <<" ">>, <<"a">>,
      Run("a", IdLen - 1), IdA, IdB }

RECURSIVE TokenStrings(_)
TokenStrings(n) ==
    IF n = 0 THEN {<<>>}
    ELSE LET shorter == TokenStrings(n - 1)
         IN  shorter \cup {s \o tk : s \in shorter, tk \in Tokens}

ParseInputs == TokenStrings(MaxTokens)

(***************************************************************************)
(* Python dicts as functions.                                              *)
(***************************************************************************)
EmptyDict == [k \in {} |-> None]

\* d[k] = v
Put(d, k, v) == [x \in DOMAIN d \cup {k} |-> IF x = k THEN v ELSE d[x]]

\* d.get(k)
Get(d, k) == IF k \in DOMAIN d THEN d[k] ELSE None

\* a or b, on Optional[str] values
Or(a, b) == IF Truthy(a) THEN a ELSE b

PyDict(d) == [t |-> "dict", d |-> d]

PyInt(n) == [t |-> "int", v |-> n]

DigitChars == <<"0", "1", "2", "3", "4", "5", "6", "7", "8", "9">>

RECURSIVE Digits(_)
Digits(n) ==
    IF n < 10 THEN <<DigitChars[n + 1]>>
    ELSE Digits(n \div 10) \o <<DigitChars[(n % 10) + 1]>>

\* str(x) of a value that is not a dict
PyStrOf(x) ==
    CASE x.t = "str"  -> x.v
      [] x.t = "None" -> <<"N", "o", "n", "e">>
      [] x.t = "int"  -> IF x.v < 0 THEN <<"-">> \o Digits(0 - x.v)
                         ELSE Digits(x.v)

(***************************************************************************)
(* qa_chain.py: VideoKnowledgeBase and answer_question                     *)
(*                                                                         *)
(* A FAISS store is modelled by the documents it was built from.  The      *)
(* operations return what they raised (raised = "" when they returned),    *)
(* the mapping they leave, and the external calls they made: the batches   *)
(* of documents sent to the embedding service and whether the retrieval    *)
(* chain was invoked.                                                      *)
(***************************************************************************)
FAISS(docs) == [docs |-> docs]

\* VideoKnowledgeBase.get_index
get_index(indexes, video_id) ==
    IF video_id \in DOMAIN indexes THEN indexes[video_id] ELSE None

\* The response of an external service that was not called.
NotAsked == [t |-> "not called"]

\* build_index storing an index over no document instead of failing.
build_index_empty_stored(indexes, video_id, documents, embed) ==
    IF documents # <<>> /\ embed.t = "raise"
    THEN [raised |-> "EmbeddingError", indexes |-> indexes, store |-> None,
          batches |-> <<documents>>]
    ELSE [raised |-> "", indexes |-> Put(indexes, video_id, FAISS(documents)),
          store |-> FAISS(documents), batches |-> <<documents>>]

\* VideoKnowledgeBase.build_index.  embed is what FAISS.from_documents,
\* which sends every document to the embedding service in one batch, does:
\* [t |-> "ok"] or [t |-> "raise"].
build_index(indexes, video_id, documents, embed) ==
    IF documents = <<>>
    THEN [raised |-> "ValueError", indexes |-> indexes, store |-> None,
          batches |-> <<>>]
    ELSE IF embed.t = "raise"
    THEN [raised |-> "EmbeddingError", indexes |-> indexes, store |-> None,
          batches |-> <<documents>>]
    ELSE [raised |-> "", indexes |-> Put(indexes, video_id, FAISS(documents)),
          store |-> FAISS(documents), batches |-> <<documents>>]

\* The tail of answer_question returning "" for whatever is not a mapping.
AnswerOfMappingOnly(result) ==
    IF result.t = "dict"
    THEN Or(Get(result.d, "result"), Or(Get(result.d, "output_text"), Str(<<>>)))
    ELSE Str(<<>>)

\* The tail of answer_question: the answer text taken from chain.invoke's
\* result.
AnswerOf(result) ==
    IF result.t = "dict"
    THEN Or(Get(result.d, "result"), Or(Get(result.d, "output_text"), Str(<<>>)))
    ELSE Str(PyStrOf(result))

\* answer_question building the index on every call, stored or not.
answer_question_rebuilding(indexes, video_id, question, documents, embed, invoke) ==
    LET built == build_index(indexes, video_id, documents,
                             IF embed = NotAsked THEN [t |-> "ok"] ELSE embed)
        base  == [raised |-> built.raised, indexes |-> built.indexes,
                  build_calls |-> 1,
                  batches |-> built.batches, store |-> built.store,
                  invoked |-> FALSE, result |-> None, answer |-> None]
    IN  IF built.raised # "" THEN base
        ELSE IF invoke.t = "raise"
        THEN [base EXCEPT !.raised = "InvokeError", !.invoked = TRUE]
        ELSE [base EXCEPT !.invoked = TRUE, !.result = invoke.value,
                          !.answer = AnswerOf(invoke.value)]

\* answer_question.  embed: as for build_index; invoke is what chain.invoke
\* does: [t |-> "raise"] (the question's embedding or the generation fails)
\* or [t |-> "return", value |-> v].
answer_question(indexes, video_id, question, documents, embed, invoke) ==
    LET found == get_index(indexes, video_id)
        built == IF found = None
                 THEN build_index(indexes, video_id, documents, embed)
                 ELSE [raised |-> "", indexes |-> indexes, store |-> found,
                       batches |-> <<>>]
        base  == [raised |-> built.raised, indexes |-> built.indexes,
                  build_calls |-> IF found = None THEN 1 ELSE 0,
                  batches |-> built.batches, store |-> built.store,
                  invoked |-> FALSE, result |-> None, answer |-> None]
    IN  IF built.raised # "" THEN base
        ELSE IF invoke.t = "raise"
        THEN [base EXCEPT !.raised = "InvokeError", !.invoked = TRUE]
        ELSE [base EXCEPT !.invoked = TRUE, !.result = invoke.value,
                          !.answer = AnswerOf(invoke.value)]

(***************************************************************************)
(* The values the model draws from: video ids, documents, questions and    *)
(* the results of the retrieval chain.                                     *)
(***************************************************************************)
VideoIds == {IdA, IdB}

Document(text, md) == [page_content |-> text, metadata |-> md]

\* The metadata load_video puts on every chunk of a video without snippet.
BareMeta(video_id) ==
    [video_id |-> Str(video_id), title |-> None, channel |-> None,
     published_at |-> None]

TextHi == <<"h", "i">>
TextYo == <<"y", "o">>

\* The chunk sequences passed to the knowledge base when it is used directly.
DocSeqs(video_id) ==
    { <<>>,
      <<Document(TextHi, BareMeta(video_id))>>,
      <<Document(TextHi, BareMeta(video_id)),
        Document(TextYo, BareMeta(video_id))>> }

\* The chunk sequences passed to build_index when it is called directly.
KbDocSeqs(video_id) ==
    DocSeqs(video_id) \cup {<<Document(TextYo, BareMeta(video_id))>>}

QuestionWhat == <<"w", "h", "y", "?">>

TextAns == <<"a", "n", "s">>
TextOut == <<"o", "u", "t">>
TextRaw == <<"r", "a", "w">>

\* What chain.invoke may return: RetrievalQA's mapping, other mappings, and
\* values that are not mappings.
ChainResults ==
    { PyDict([query |-> Str(QuestionWhat), result |-> Str(TextAns)]),
      PyDict([query |-> Str(QuestionWhat), result |-> Str(<<>>),
              output_text |-> Str(TextOut)]),
      PyDict([query |-> Str(QuestionWhat), result |-> None]),
      PyDict([query |-> Str(QuestionWhat)]),
      Str(TextRaw), Str(<<>>), None, PyInt(7) }

InvokeOutcomes ==
    {[t |-> "raise"]} \cup {[t |-> "return", value |-> r] : r \in ChainResults}

EmbedResponses == {[t |-> "ok"], [t |-> "raise"]}

Raise == [t |-> "raise"]

\* The responses of the embedding service to build_index: one of
\* EmbedResponses if build_index calls it, none if it does not.
EmbedAskedByBuild(indexes, video_id, documents) ==
    IF build_index(indexes, video_id, documents, Raise).batches # <<>>
    THEN EmbedResponses ELSE {NotAsked}

\* The same for answer_question, and the outcomes of chain.invoke if
\* answer_question, given the response embed, gets to invoke the chain.
EmbedAsked(indexes, video_id, question, documents) ==
    IF answer_question(indexes, video_id, question, documents,
                       Raise, Raise).batches # <<>>
    THEN EmbedResponses ELSE {NotAsked}

InvokeAsked(indexes, video_id, question, documents, embed, outcomes) ==
    IF answer_question(indexes, video_id, question, documents,
                       embed, Raise).invoked
    THEN outcomes ELSE {NotAsked}

(***************************************************************************)
(* The knowledge base used directly: answer_question, build_index and      *)
(* get_index called on one VideoKnowledgeBase instance.                    *)
(***************************************************************************)
\* The number of answer_question calls the history follows.
MaxAsks == 3

\* kb_hist after an answer_question call that did r.
\* asks: the calls made; per video id, asks_of: the calls for it,
\* build_calls: the build_index calls they made, batches: the batches they
\* sent to the embedding service, first_docs: the chunks of the first call;
\* ext_failed: an external call has failed; empty_for: the video ids of the
\* calls that passed no chunk.
KbHistAfter(h, video_id, documents, r) ==
    [asks         |-> h.asks + 1,
     asks_of      |-> [h.asks_of EXCEPT ![video_id] = @ + 1],
     build_calls  |-> [h.build_calls EXCEPT ![video_id] = @ + r.build_calls],
     batches      |-> [h.batches EXCEPT ![video_id] = @ \o r.batches],
     first_docs   |-> IF h.asks_of[video_id] > 0 THEN h.first_docs
                      ELSE [h.first_docs EXCEPT ![video_id] = documents],
     ext_failed   |-> h.ext_failed
                      \/ r.raised \in {"EmbeddingError", "InvokeError"},
     empty_for    |-> IF documents = <<>> THEN h.empty_for \cup {video_id}
                      ELSE h.empty_for]

AnswerQuestion(video_id, question, documents, embed, invoke) ==
    /\ kb_hist.asks < MaxAsks
    /\ \E r \in {answer_question(_indexes, video_id, question, documents,
                                  embed, invoke)} :
           /\ _indexes' = r.indexes
           /\ last' = [op |-> "answer_question", video_id |-> video_id,
                       documents |-> documents, raised |-> r.raised,
                       build_calls |-> r.build_calls, batches |-> r.batches,
                       store |-> r.store, invoked |-> r.invoked,
                       result |-> r.result, answer |-> r.answer]
           /\ kb_hist' = KbHistAfter(kb_hist, video_id, documents, r)
    /\ UNCHANGED <<parseVars, cfgVars, videos, selected_video, qa_last_answer,
                   app_hist>>

BuildIndex(video_id, documents, embed) ==
    /\ \E r \in {build_index(_indexes, video_id, documents, embed)} :
           /\ _indexes' = r.indexes
           /\ last' = [op |-> "build_index", video_id |-> video_id,
                       documents |-> documents, raised |-> r.raised,
                       batches |-> r.batches, store |-> r.store]
    /\ UNCHANGED <<parseVars, cfgVars, videos, selected_video, qa_last_answer,
                   kb_hist, app_hist>>

GetIndex(video_id) ==
    /\ last' = [op |-> "get_index", video_id |-> video_id,
                raised |-> "", batches |-> <<>>,
                store |-> get_index(_indexes, video_id)]
    /\ UNCHANGED <<parseVars, cfgVars, videos, selected_video, qa_last_answer,
                   _indexes, kb_hist, app_hist>>

(***************************************************************************)
(* youtube_client.py: metadata and transcript                              *)
(***************************************************************************)
\* d.get(k, default)
GetOr(d, k, default) == IF k \in DOMAIN d THEN d[k] ELSE default

\* YouTubeClient.get_video_metadata.  resp is what videos().list().execute()
\* does: [t |-> "HttpError"] or [t |-> "ok", items |-> <<item, ...>>].
get_video_metadata(video_id, resp) ==
    IF resp.t = "HttpError" THEN [raised |-> "HttpError", value |-> None]
    ELSE IF resp.items = <<>> THEN [raised |-> "", value |-> None]
    ELSE LET snippet    == resp.items[1].snippet
             thumbnails == GetOr(snippet, "thumbnails", EmptyDict)
             high       == GetOr(thumbnails, "high", EmptyDict)
             high_thumb == IF DOMAIN high # {} THEN high
                           ELSE GetOr(thumbnails, "medium", EmptyDict)
             thumb      == IF DOMAIN high_thumb # {} THEN high_thumb
                           ELSE GetOr(thumbnails, "default", EmptyDict)
         IN  [raised |-> "",
              value  |-> [t             |-> "VideoMetadata",
                          video_id      |-> Str(video_id),
                          title         |-> GetOr(snippet, "title", Str(<<>>)),
                          channel_title |-> GetOr(snippet, "channelTitle", Str(<<>>)),
                          description   |-> GetOr(snippet, "description", Str(<<>>)),
                          published_at  |-> GetOr(snippet, "publishedAt", Str(<<>>)),
                          thumbnail_url |-> Get(thumb, "url")]]

\* text.replace("\n", " ")
ReplaceNewlines(text) ==
    [i \in 1..Len(text) |-> IF text[i] = "\n" THEN " " ELSE text[i]]

\* chunk_separator.join(parts)
RECURSIVE Join(_, _)
Join(parts, sep) ==
    IF parts = <<>> THEN <<>>
    ELSE IF Len(parts) = 1 THEN parts[1]
    ELSE parts[1] \o sep \o Join(Tail(parts), sep)

\* The parts list fetch_transcript collects from the transcript's chunks.
RECURSIVE TranscriptParts(_)
TranscriptParts(items) ==
    IF items = <<>> THEN <<>>
    ELSE LET text == Get(items[1], "text")
         IN  (IF Truthy(text) THEN <<Strip(ReplaceNewlines(text.v))>> ELSE <<>>)
             \o TranscriptParts(Tail(items))

\* YouTubeClient.fetch_transcript.  resp is what get_transcript does:
\* [t |-> "TranscriptsDisabled"], [t |-> "NoTranscriptFound"] or
\* [t |-> "list", items |-> <<chunk, ...>>].
fetch_transcript(video_id, resp) ==
    CASE resp.t = "TranscriptsDisabled" ->
           [raised |-> "RuntimeError",
            message |-> "Transcripts are disabled for this video.",
            value |-> <<>>]
      [] resp.t = "NoTranscriptFound" ->
           [raised |-> "RuntimeError",
            message |-> "No transcript could be found for this video.",
            value |-> <<>>]
      [] resp.t = "list" ->
           [raised |-> "", message |-> "",
            value |-> Join(TranscriptParts(resp.items), <<" ">>)]

\* get_metadata_and_transcript asking the transcript service a second time
\* when it raises.
get_metadata_and_transcript_retrying(video_id, meta_resp, tr_resp) ==
    LET metadata == get_video_metadata(video_id, meta_resp)
        fetched  == fetch_transcript(video_id, tr_resp)
    IN  IF metadata.raised # ""
        THEN [raised |-> metadata.raised, message |-> "YouTube API error",
              payload |-> EmptyDict, meta_calls |-> 1, transcript_calls |-> 0]
        ELSE IF fetched.raised # ""
        THEN [raised |-> fetched.raised, message |-> fetched.message,
              payload |-> EmptyDict, meta_calls |-> 1, transcript_calls |-> 2]
        ELSE [raised |-> "", message |-> "",
              payload |-> [transcript |-> Str(fetched.value)],
              meta_calls |-> 1, transcript_calls |-> 1]

\* get_metadata_and_transcript: the payload, or what was raised, and the
\* number of calls made to each service.
get_metadata_and_transcript(video_id, meta_resp, tr_resp) ==
    LET metadata == get_video_metadata(video_id, meta_resp)
        fetched  == fetch_transcript(video_id, tr_resp)
        m        == metadata.value
    IN  IF metadata.raised # ""
        THEN [raised |-> metadata.raised, message |-> "YouTube API error",
              payload |-> EmptyDict, meta_calls |-> 1, transcript_calls |-> 0]
        ELSE IF fetched.raised # ""
        THEN [raised |-> fetched.raised, message |-> fetched.message,
              payload |-> EmptyDict, meta_calls |-> 1, transcript_calls |-> 1]
        ELSE [raised |-> "", message |-> "",
              payload |->
                  IF m = None
                  THEN [transcript |-> Str(fetched.value)]
                  ELSE [transcript    |-> Str(fetched.value),
                        title         |-> m.title,
                        channel_title |-> m.channel_title,
                        description   |-> m.description,
                        published_at  |-> m.published_at,
                        thumbnail_url |-> m.thumbnail_url],
              meta_calls |-> 1, transcript_calls |-> 1]

(***************************************************************************)
(* transcript_loader.py and summarizer.py                                  *)
(***************************************************************************)
\* The words of a text: its maximal runs of characters other than blanks.
RECURSIVE Words(_)
Words(text) ==
    LET t == LStrip(text)
        n == IF \E i \in 1..Len(t) : t[i] \in Whitespace
             THEN (CHOOSE i \in 1..Len(t) :
                      /\ t[i] \in Whitespace
                      /\ \A j \in 1..(i - 1) : t[j] \notin Whitespace) - 1
             ELSE Len(t)
    IN  IF t = <<>> THEN <<>>
        ELSE <<SubSeq(t, 1, n)>> \o Words(SubSeq(t, n + 1, Len(t)))

\* RecursiveCharacterTextSplitter.split_text, an external library: chunks
\* are stripped and empty chunks dropped, so a blank text gives none.  The
\* texts of the model are far shorter than chunk_size; to have videos of
\* several chunks, the model cuts at every blank (the last separator).
SplitText(text) == Words(text)

\* build_documents
build_documents(transcript_text, metadata) ==
    IF transcript_text = <<>> THEN <<>>
    ELSE LET pieces == SplitText(transcript_text)
         IN  [i \in 1..Len(pieces) |-> Document(pieces[i], metadata)]

SummaryNoTranscript == <<"No transcript available to summarize.">>
SummaryUnable == <<"Unable to generate summary.">>

\* summarize_documents.  chain is what chain.invoke does: [t |-> "raise"]
\* or [t |-> "return", value |-> v].  A summary is a sequence of pieces:
\* a sentinel sentence, or the characters of the model's text.
summarize_documents(documents, chain) ==
    IF documents = <<>>
    THEN [raised |-> "", value |-> SummaryNoTranscript, calls |-> 0]
    ELSE IF chain.t = "raise"
    THEN [raised |-> "SummarizeError", value |-> <<>>, calls |-> 1]
    ELSE LET result == chain.value
         IN  [raised |-> "",
              value  |-> IF result.t = "dict" /\ "output_text" \in DOMAIN result.d
                         THEN Strip(result.d["output_text"].v)
                         ELSE IF result.t = "str" THEN Strip(result.v)
                         ELSE SummaryUnable,
              calls  |-> 1]

(***************************************************************************)
(* app.py: the page.  One action per button: "Load video" runs load_video, *)
(* "Get answer" runs the question branch of main.  An exception that       *)
(* leaves the script uncaught ends the run (outcome "exception");          *)
(* st.session_state keeps what was assigned before it.                     *)
(***************************************************************************)
\* The session state and the report of an action that assigned nothing.
Unchanged(st, outcome, message, calls) ==
    [videos |-> st.videos, selected_video |-> st.selected_video,
     qa_last_answer |-> st.qa_last_answer, indexes |-> st.indexes,
     outcome |-> outcome, message |-> message, calls |-> calls]

\* The external calls of an action: the number of calls to the metadata
\* service, the transcript service and the summarize chain, of build_index
\* calls, of batches sent to the embedding service, and whether the
\* retrieval chain was invoked.
NoCalls == [meta |-> 0, transcript |-> 0, summary |-> 0, build |-> 0,
            batches |-> 0, invoked |-> FALSE]

\* The session after load_video has stored the video with this summary.
Loaded(st, video_input, video_id, payload, documents, summary, calls) ==
    [videos |-> Put(st.videos, video_id.v,
                    [input     |-> video_input,
                     metadata  |-> payload,
                     documents |-> documents,
                     summary   |-> summary]),
     selected_video |-> video_id,
     qa_last_answer |-> None,
     indexes |-> st.indexes,
     outcome |-> "ok", message |-> <<>>, calls |-> calls]

\* load_video storing the video and selecting it before it summarizes, so
\* that a failing summarization leaves the video stored without summary.
load_video_storing_first(st, video_input, meta_resp, tr_resp, chain) ==
    LET video_id == parse_video_id(video_input)
        got      == get_metadata_and_transcript(video_id.v, meta_resp, tr_resp)
        fetched  == [NoCalls EXCEPT !.meta = got.meta_calls,
                                    !.transcript = got.transcript_calls]
        transcript_text == Get(got.payload, "transcript")
        metadata == [video_id     |-> video_id,
                     title        |-> Get(got.payload, "title"),
                     channel      |-> Get(got.payload, "channel_title"),
                     published_at |-> Get(got.payload, "published_at")]
        documents == build_documents(transcript_text.v, metadata)
        summary  == summarize_documents(documents, chain)
        summed   == [fetched EXCEPT !.summary = summary.calls]
        stored   == Loaded(st, video_input, video_id, got.payload, documents,
                           summary.value, summed)
    IN  IF ~Truthy(video_id)
        THEN Unchanged(st, "error",
                 <<"Please provide a valid YouTube URL or video ID.">>, NoCalls)
        ELSE IF got.raised # ""
        THEN Unchanged(st, "error",
                 <<"Failed to retrieve video data: ", got.message>>, fetched)
        ELSE IF ~Truthy(transcript_text)
        THEN Unchanged(st, "error",
                 <<"Transcript could not be fetched for this video.">>, fetched)
        ELSE IF summary.raised # ""
        THEN [stored EXCEPT !.outcome = "exception",
                            !.message = <<summary.raised>>]
        ELSE stored

\* load_video leaving the last Q&A pair in place.
load_video_keeping_answer(st, video_input, meta_resp, tr_resp, chain) ==
    LET video_id == parse_video_id(video_input)
        got      == get_metadata_and_transcript(video_id.v, meta_resp, tr_resp)
        fetched  == [NoCalls EXCEPT !.meta = got.meta_calls,
                                    !.transcript = got.transcript_calls]
        transcript_text == Get(got.payload, "transcript")
        metadata == [video_id     |-> video_id,
                     title        |-> Get(got.payload, "title"),
                     channel      |-> Get(got.payload, "channel_title"),
                     published_at |-> Get(got.payload, "published_at")]
        documents == build_documents(transcript_text.v, metadata)
        summary  == summarize_documents(documents, chain)
        summed   == [fetched EXCEPT !.summary = summary.calls]
    IN  IF ~Truthy(video_id)
        THEN Unchanged(st, "error",
                 <<"Please provide a valid YouTube URL or video ID.">>, NoCalls)
        ELSE IF got.raised # ""
        THEN Unchanged(st, "error",
                 <<"Failed to retrieve video data: ", got.message>>, fetched)
        ELSE IF ~Truthy(transcript_text)
        THEN Unchanged(st, "error",
                 <<"Transcript could not be fetched for this video.">>, fetched)
        ELSE IF summary.raised # ""
        THEN Unchanged(st, "exception", <<summary.raised>>, summed)
        ELSE [Loaded(st, video_input, video_id, got.payload, documents,
                     summary.value, summed)
                 EXCEPT !.qa_last_answer = st.qa_last_answer]

\* load_video
load_video(st, video_input, meta_resp, tr_resp, chain) ==
    LET video_id == parse_video_id(video_input)
        got      == get_metadata_and_transcript(video_id.v, meta_resp, tr_resp)
        payload  == got.payload
        fetched  == [NoCalls EXCEPT !.meta = got.meta_calls,
                                    !.transcript = got.transcript_calls]
        transcript_text == Get(payload, "transcript")
        metadata == [video_id     |-> video_id,
                     title        |-> Get(payload, "title"),
                     channel      |-> Get(payload, "channel_title"),
                     published_at |-> Get(payload, "published_at")]
        documents == build_documents(transcript_text.v, metadata)
        summary  == summarize_documents(documents, chain)
        summed   == [fetched EXCEPT !.summary = summary.calls]
    IN  IF ~Truthy(video_id)
        THEN Unchanged(st, "error",
                 <<"Please provide a valid YouTube URL or video ID.">>, NoCalls)
        ELSE IF got.raised # ""
        THEN Unchanged(st, "error",
                 <<"Failed to retrieve video data: ", got.message>>, fetched)
        ELSE IF ~Truthy(transcript_text)
        THEN Unchanged(st, "error",
                 <<"Transcript could not be fetched for this video.">>, fetched)
        ELSE IF summary.raised # ""
        THEN Unchanged(st, "exception", <<summary.raised>>, summed)
        ELSE Loaded(st, video_input, video_id, payload, documents,
                    summary.value, summed)

\* The "Get answer" branch of main, for the selected video.
get_answer(st, question, embed, invoke) ==
    LET selected  == st.selected_video.v
        documents == st.videos[selected].documents
        r         == answer_question(st.indexes, selected, question,
                                     documents, embed, invoke)
        calls     == [NoCalls EXCEPT !.build = r.build_calls,
                                     !.batches = Len(r.batches),
                                     !.invoked = r.invoked]
        asked     == [videos |-> st.videos,
                      selected_video |-> st.selected_video,
                      qa_last_answer |-> st.qa_last_answer,
                      indexes |-> r.indexes,
                      outcome |-> "exception", message |-> <<r.raised>>,
                      calls |-> calls]
    IN  IF Strip(question) = <<>>
        THEN Unchanged(st, "warning", <<"Enter a question first.">>, NoCalls)
        ELSE IF documents = <<>>
        THEN Unchanged(st, "error",
                 <<"No documents are loaded for this video. Try reloading it.">>,
                 NoCalls)
        ELSE IF r.raised # "" THEN asked
        ELSE IF Truthy(r.answer)
        THEN [asked EXCEPT !.qa_last_answer =
                               [t |-> "dict", question |-> question,
                                answer |-> r.answer.v],
                           !.outcome = "ok", !.message = <<>>]
        ELSE [asked EXCEPT !.outcome = "warning",
                           !.message = <<"No answer generated. Try asking in a different way.">>]

SessionState ==
    [videos |-> videos, selected_video |-> selected_video,
     qa_last_answer |-> qa_last_answer, indexes |-> _indexes]

\* "Load video" submitted with a non-empty text.
LoadVideo(video_input, meta_resp, tr_resp, chain) ==
    /\ video_input # <<>>
    /\ \E r \in {load_video(SessionState, video_input, meta_resp, tr_resp,
                             chain)} :
           /\ videos' = r.videos
           /\ selected_video' = r.selected_video
           /\ qa_last_answer' = r.qa_last_answer
           /\ _indexes' = r.indexes
           /\ last' = [op |-> "load", meta |-> meta_resp.t,
                       found |-> meta_resp.t = "ok" /\ meta_resp.items # <<>>,
                       transcript |-> tr_resp.t,
                       outcome |-> r.outcome, calls |-> r.calls]
           /\ app_hist' = IF r.outcome = "ok"
                          THEN [loaded |-> r.selected_video, since_load |-> None]
                          ELSE app_hist
    /\ UNCHANGED <<parseVars, cfgVars, kb_hist>>

\* "Get answer" pressed; the button exists only while a video is selected.
GetAnswer(question, embed, invoke) ==
    /\ Truthy(selected_video)
    /\ \E r \in {get_answer(SessionState, question, embed, invoke)} :
           /\ videos' = r.videos
           /\ selected_video' = r.selected_video
           /\ qa_last_answer' = r.qa_last_answer
           /\ _indexes' = r.indexes
           /\ last' = [op |-> "ask", outcome |-> r.outcome, calls |-> r.calls]
           /\ app_hist' = IF r.outcome = "ok"
                          THEN [app_hist EXCEPT !.since_load =
                                   [t |-> "qa", video |-> selected_video,
                                    question |-> question,
                                    answer |-> r.qa_last_answer.answer]]
                          ELSE app_hist
    /\ UNCHANGED <<parseVars, cfgVars, kb_hist>>

(***************************************************************************)
(* config.py: Settings.load and get_settings                               *)
(***************************************************************************)
EnvNames ==
    {"OPENAI_API_KEY", "YOUTUBE_API_KEY", "OPENAI_MODEL",
     "OPENAI_EMBEDDING_MODEL", "SUMMARIZE_PROMPT", "MAX_SUMMARY_TOKENS",
     "CHUNK_SIZE", "CHUNK_OVERLAP", "TOP_K", "TEMPERATURE"}

\* os.getenv(name, default)
getenv(e, name, default) == IF e[name] = None THEN default ELSE e[name].v

IsDigit(c) == \E i \in 1..10 : DigitChars[i] = c

DigitValue(c) == (CHOOSE i \in 1..10 : DigitChars[i] = c) - 1

RECURSIVE DigitsValue(_)
DigitsValue(ds) ==
    IF ds = <<>> THEN 0
    ELSE 10 * DigitsValue(SubSeq(ds, 1, Len(ds) - 1)) + DigitValue(ds[Len(ds)])

\* A literal without its sign.
Unsigned(t) == IF t # <<>> /\ t[1] \in {"+", "-"} THEN Tail(t) ELSE t

Sign(t) == IF t # <<>> /\ t[1] = "-" THEN -1 ELSE 1

\* int(s) does not raise ValueError: blanks around an optionally signed,
\* non-empty run of digits (digit-group underscores are not modelled).
IsInt(s) ==
    LET body == Unsigned(Strip(s))
    IN  body # <<>> /\ \A i \in 1..Len(body) : IsDigit(body[i])

\* int(s)
IntOf(s) == Sign(Strip(s)) * DigitsValue(Unsigned(Strip(s)))

\* The position of the decimal point of a literal, 0 if it has none.
PointAt(body) ==
    IF \E i \in 1..Len(body) : body[i] = "."
    THEN CHOOSE i \in 1..Len(body) : body[i] = "."
    ELSE 0

\* float(s) does not raise ValueError: digits with at most one decimal
\* point (exponents, inf and nan are not modelled).
IsFloat(s) ==
    LET body == Unsigned(Strip(s))
    IN  /\ \E i \in 1..Len(body) : IsDigit(body[i])
        /\ \A i \in 1..Len(body) : IsDigit(body[i]) \/ body[i] = "."
        /\ Cardinality({i \in 1..Len(body) : body[i] = "."}) <= 1

RECURSIVE DropTrailingZeros(_)
DropTrailingZeros(ds) ==
    IF ds # <<>> /\ ds[Len(ds)] = "0"
    THEN DropTrailingZeros(SubSeq(ds, 1, Len(ds) - 1))
    ELSE ds

\* float(s), as its sign, whole part and significant decimals.
FloatOf(s) ==
    LET body == Unsigned(Strip(s))
        p    == PointAt(body)
    IN  [sign  |-> Sign(Strip(s)),
         whole |-> DigitsValue(IF p = 0 THEN body ELSE SubSeq(body, 1, p - 1)),
         frac  |-> IF p = 0 THEN <<>>
                   ELSE DropTrailingZeros(SubSeq(body, p + 1, Len(body)))]

DefaultModel == <<"g", "p", "t", "-", "4", "o", "-", "m", "i", "n", "i">>
DefaultEmbedding == <<"t", "e", "x", "t", "-", "e", "m", "b", "e", "d", "d", "i", "n", "g", "-", "3", "-", "l", "a", "r", "g", "e">>
DefaultPrompt == <<"m", "a", "p", "_", "r", "e", "d", "u", "c", "e">>

\* The missing list stopping at the first missing name.
MissingKeysFirstOnly(openai_api_key, youtube_api_key) ==
    IF openai_api_key = <<>> THEN <<"OPENAI_API_KEY">>
    ELSE IF youtube_api_key = <<>> THEN <<"YOUTUBE_API_KEY">>
    ELSE <<>>

\* The names of the required variables whose stripped value is empty.
MissingKeys(openai_api_key, youtube_api_key) ==
    (IF openai_api_key = <<>> THEN <<"OPENAI_API_KEY">> ELSE <<>>)
    \o (IF youtube_api_key = <<>> THEN <<"YOUTUBE_API_KEY">> ELSE <<>>)

\* The first of the numeric variables, in the order Settings.load converts
\* them, whose value does not convert; "" if all do.
FirstBadNumber(e) ==
    IF ~IsInt(getenv(e, "MAX_SUMMARY_TOKENS", <<"4", "0", "0">>))
    THEN "MAX_SUMMARY_TOKENS"
    ELSE IF ~IsInt(getenv(e, "CHUNK_SIZE", <<"1", "2", "0", "0">>))
    THEN "CHUNK_SIZE"
    ELSE IF ~IsInt(getenv(e, "CHUNK_OVERLAP", <<"2", "0", "0">>))
    THEN "CHUNK_OVERLAP"
    ELSE IF ~IsInt(getenv(e, "TOP_K", <<"6">>)) THEN "TOP_K"
    ELSE IF ~IsFloat(getenv(e, "TEMPERATURE", <<"0", ".", "2">>))
    THEN "TEMPERATURE"
    ELSE ""

\* a or default, on str
OrDefault(a, default) == IF a # <<>> THEN a ELSE default

\* Settings.load: the settings record, or the exception raised.  A message
\* is the sequence of the pieces that make it up.
Load(raise_on_missing, e) ==
    LET openai_api_key  == Strip(getenv(e, "OPENAI_API_KEY", <<>>))
        youtube_api_key == Strip(getenv(e, "YOUTUBE_API_KEY", <<>>))
        missing == MissingKeys(openai_api_key, youtube_api_key)
        joined  == Join([i \in 1..Len(missing) |-> <<missing[i]>>], <<", ">>)
        bad     == FirstBadNumber(e)
    IN  IF raise_on_missing /\ missing # <<>>
        THEN [t |-> "RuntimeError",
              message |-> <<"Missing required environment variables: ">>
                          \o joined
                          \o <<". ", "Populate them in a .env file or export them before running the app.">>]
        ELSE IF bad # ""
        THEN [t |-> "ValueError", variable |-> bad]
        ELSE [t |-> "Settings",
              openai_api_key  |-> openai_api_key,
              youtube_api_key |-> youtube_api_key,
              openai_model    |->
                  OrDefault(Strip(getenv(e, "OPENAI_MODEL", DefaultModel)),
                            DefaultModel),
              embedding_model |->
                  OrDefault(Strip(getenv(e, "OPENAI_EMBEDDING_MODEL",
                                         DefaultEmbedding)), DefaultEmbedding),
              summarize_prompt_name |->
                  OrDefault(Strip(getenv(e, "SUMMARIZE_PROMPT", DefaultPrompt)),
                            DefaultPrompt),
              max_summary_tokens |->
                  IntOf(getenv(e, "MAX_SUMMARY_TOKENS", <<"4", "0", "0">>)),
              chunk_size    |-> IntOf(getenv(e, "CHUNK_SIZE", <<"1", "2", "0", "0">>)),
              chunk_overlap |-> IntOf(getenv(e, "CHUNK_OVERLAP", <<"2", "0", "0">>)),
              top_k         |-> IntOf(getenv(e, "TOP_K", <<"6">>)),
              temperature   |-> FloatOf(getenv(e, "TEMPERATURE", <<"0", ".", "2">>))]

\* get_settings loading the settings on every call.
get_settings_reloading(cached, e) ==
    LET loaded == Load(TRUE, e)
    IN  [cached  |-> IF loaded.t = "Settings" THEN loaded ELSE cached,
         outcome |-> loaded, read_env |-> TRUE]

\* get_settings: the new value of the global _SETTINGS, what the call
\* returned or raised, and whether it read the environment.
get_settings(cached, e) ==
    IF cached = None
    THEN LET loaded == Load(TRUE, e)
         IN  [cached  |-> IF loaded.t = "Settings" THEN loaded ELSE None,
              outcome |-> loaded, read_env |-> TRUE]
    ELSE [cached |-> cached, outcome |-> cached, read_env |-> FALSE]

(***************************************************************************)
(* The configuration used directly: the environment changes, Settings.load *)
(* and get_settings are called.                                            *)
(***************************************************************************)
\* The number of changes made to the environment after the process starts.
MaxEnvChanges == 2

KeyValues ==
    {None, Str(<<>>), Str(<<" ">>), Str(<<"k">>), Str(<<" ", "k", "\n">>)}

TextValues == {None, Str(<<" ">>), Str(<<"m">>)}

IntValues == {None, Str(<<" ", "+", "1", "0", " ">>), Str(<<"x">>)}

FloatValues == {None, Str(<<"1", ".", "5", "0">>), Str(<<>>)}

EnvValues(name) ==
    CASE name \in {"OPENAI_API_KEY", "YOUTUBE_API_KEY"} -> KeyValues
      [] name \in {"OPENAI_MODEL", "OPENAI_EMBEDDING_MODEL", "SUMMARIZE_PROMPT"}
           -> TextValues
      [] name = "TEMPERATURE" -> FloatValues
      [] OTHER -> IntValues

StartKeyValues == {None, Str(<<" ">>), Str(<<" ", "k", "\n">>)}

\* The environment a process starts in: the optional variables unset.
StartEnvs ==
    {[name \in EnvNames |->
         CASE name = "OPENAI_API_KEY" -> o
           [] name = "YOUTUBE_API_KEY" -> y
           [] OTHER -> None] : o \in StartKeyValues, y \in StartKeyValues}

NoCall == [t |-> "no call"]

\* os.environ[name] = value, or del os.environ[name]
SetEnv(name, value) ==
    /\ cfg_hist.changes < MaxEnvChanges
    /\ env[name] # value
    /\ env' = [env EXCEPT ![name] = value]
    /\ cfg_last' = [op |-> "setenv", raise_on_missing |-> TRUE, outcome |-> NoCall]
    /\ cfg_hist' = [cfg_hist EXCEPT !.changes = @ + 1]
    /\ UNCHANGED <<_SETTINGS, parseVars, appVars>>

\* Settings.load(raise_on_missing=...)
LoadSettings(raise_on_missing) ==
    /\ cfg_last' = [op |-> "load", raise_on_missing |-> raise_on_missing,
                    outcome |-> Load(raise_on_missing, env)]
    /\ UNCHANGED <<env, _SETTINGS, cfg_hist, parseVars, appVars>>

\* get_settings()
GetSettings ==
    \E r \in {get_settings(_SETTINGS, env)} :
        /\ _SETTINGS' = r.cached
        /\ cfg_last' = [op |-> "get_settings", raise_on_missing |-> TRUE,
                        outcome |-> r.outcome]
        /\ cfg_hist' =
              [changes |-> cfg_hist.changes,
               first   |-> IF cfg_hist.first = NoCall THEN r.outcome
                           ELSE cfg_hist.first,
               read_after_first |->
                   cfg_hist.read_after_first
                   \/ (cfg_hist.first # NoCall /\ r.read_env),
               returned |-> IF cfg_hist.returned = NoCall /\ r.outcome.t = "Settings"
                            THEN r.outcome ELSE cfg_hist.returned,
               read_after_returned |->
                   cfg_hist.read_after_returned
                   \/ (cfg_hist.returned # NoCall /\ r.read_env)]
        /\ UNCHANGED <<env, parseVars, appVars>>

(***************************************************************************)
(* parse_video_id called on its own.                                       *)
(***************************************************************************)
ParseVideoId ==
    /\ parse_pc = "start"
    /\ parsed' = parse_video_id(url_or_id)
    /\ parse_pc' = "done"
    /\ UNCHANGED <<url_or_id, cfgVars, appVars>>

(***************************************************************************)
(* Initial states.  Every specification starts the parts it does not       *)
(* exercise in the state below: nothing parsed, the settings of a valid    *)
(* environment cached (the state init_app_state leaves), an empty session  *)
(* and an empty knowledge base.                                            *)
(***************************************************************************)
ValidEnv ==
    [name \in EnvNames |->
        IF name \in {"OPENAI_API_KEY", "YOUTUBE_API_KEY"}
        THEN Str(<<"k">>) ELSE None]

ParseIdle == url_or_id = <<>> /\ parsed = None /\ parse_pc = "done"

CfgIdle ==
    /\ env = ValidEnv
    /\ _SETTINGS = Load(TRUE, ValidEnv)
    /\ cfg_last = [op |-> "init", raise_on_missing |-> TRUE, outcome |-> NoCall]
    /\ cfg_hist = [changes |-> 0, first |-> NoCall, read_after_first |-> FALSE,
                   returned |-> NoCall, read_after_returned |-> FALSE]

\* init_app_state: st.session_state.videos = {}, qa_last_answer = None, a
\* new VideoKnowledgeBase; selected_video is not set.
AppStart ==
    /\ videos = EmptyDict
    /\ selected_video = None
    /\ qa_last_answer = None
    /\ _indexes = EmptyDict
    /\ last = [op |-> "init", outcome |-> "none"]
    /\ kb_hist = [asks |-> 0, asks_of |-> [v \in VideoIds |-> 0],
                  build_calls |-> [v \in VideoIds |-> 0],
                  batches |-> [v \in VideoIds |-> <<>>],
                  first_docs |-> [v \in VideoIds |-> <<>>],
                  ext_failed |-> FALSE, empty_for |-> {}]
    /\ app_hist = [loaded |-> None, since_load |-> None]

\* ---- parse_video_id on the inputs of ParseInputs
InitParse ==
    /\ url_or_id \in ParseInputs
    /\ parsed = None
    /\ parse_pc = "start"
    /\ CfgIdle
    /\ AppStart

NextParse == ParseVideoId

SpecParse == InitParse /\ [][NextParse]_vars

\* ---- the configuration of a starting process
InitSettings ==
    /\ ParseIdle
    /\ env \in StartEnvs
    /\ _SETTINGS = None
    /\ cfg_last = [op |-> "init", raise_on_missing |-> TRUE, outcome |-> NoCall]
    /\ cfg_hist = [changes |-> 0, first |-> NoCall, read_after_first |-> FALSE,
                   returned |-> NoCall, read_after_returned |-> FALSE]
    /\ AppStart

NextSettings ==
    \/ \E name \in EnvNames : \E value \in EnvValues(name) : SetEnv(name, value)
    \/ \E raise_on_missing \in BOOLEAN : LoadSettings(raise_on_missing)
    \/ GetSettings

SpecSettings == InitSettings /\ [][NextSettings]_vars

\* ---- answer_question alone on one knowledge base
InitKb == ParseIdle /\ CfgIdle /\ AppStart

NextAnswer ==
    \E video_id \in VideoIds : \E documents \in DocSeqs(video_id) :
        \E embed \in EmbedAsked(_indexes, video_id, QuestionWhat, documents) :
            \E invoke \in InvokeAsked(_indexes, video_id, QuestionWhat,
                                      documents, embed, InvokeOutcomes) :
                AnswerQuestion(video_id, QuestionWhat, documents, embed, invoke)

SpecAnswer == InitKb /\ [][NextAnswer]_vars

\* ---- build_index and get_index called directly
NextKb ==
    \/ \E video_id \in VideoIds : \E documents \in KbDocSeqs(video_id) :
           \E embed \in EmbedAskedByBuild(_indexes, video_id, documents) :
               BuildIndex(video_id, documents, embed)
    \/ \E video_id \in VideoIds : GetIndex(video_id)

SpecKb == InitKb /\ [][NextKb]_vars

\* ---- the page: "Load video" and "Get answer"
VideoInputs == {IdA, <<"/">> \o IdB \o <<"?">>, <<"x", "y">>}

SnippetOne ==
    [title |-> Str(<<"T">>), channelTitle |-> Str(<<"C">>),
     publishedAt |-> Str(<<"D">>),
     thumbnails |-> [medium |-> [url |-> Str(<<"u">>)]]]

\* What the metadata service may answer for a video: video A has no
\* accessible snippet, video B has one.
MetaResponses(video_id) ==
    IF video_id = Str(IdA)
    THEN { [t |-> "HttpError"], [t |-> "ok", items |-> <<>>] }
    ELSE { [t |-> "HttpError"],
           [t |-> "ok", items |-> <<[snippet |-> SnippetOne]>>] }

TranscriptResponses ==
    { [t |-> "TranscriptsDisabled"],
      [t |-> "NoTranscriptFound"],
      [t |-> "list", items |-> <<>>],
      [t |-> "list", items |-> <<[text |-> Str(<<"\n">>)], [text |-> Str(<<"\n">>)]>>],
      [t |-> "list", items |-> <<[text |-> Str(<<"h", "i", "\n">>)],
                                 [start |-> Str(<<"1">>)],
                                 [text |-> Str(TextYo)]>>],
      [t |-> "list", items |-> <<[text |-> Str(TextYo)]>>] }

SummaryChains ==
    { Raise,
      [t |-> "return", value |-> PyDict([output_text |-> Str(<<" ", "S", " ">>)])] }

Questions == {<<" ">>, QuestionWhat}

\* The outcomes of chain.invoke on the page: it raises, it returns
\* RetrievalQA's mapping, or a mapping without answer text.
PageInvokeOutcomes ==
    { Raise,
      [t |-> "return",
       value |-> PyDict([query |-> Str(QuestionWhat), result |-> Str(TextAns)])],
      [t |-> "return", value |-> PyDict([query |-> Str(QuestionWhat)])] }

\* The responses of the services to the "Get answer" branch: those of the
\* service if the branch, given the responses before, gets to call it.
PageEmbedAsked(st, question) ==
    IF get_answer(st, question, Raise, Raise).calls.batches > 0
    THEN EmbedResponses ELSE {NotAsked}

PageInvokeAsked(st, question, embed) ==
    IF get_answer(st, question, embed, Raise).calls.invoked
    THEN PageInvokeOutcomes ELSE {NotAsked}

\* The responses of the services to load_video: those of the service if
\* load_video, given the responses before, gets to call it.
MetaAsked(st, video_input) ==
    IF load_video(st, video_input, [t |-> "HttpError"], NotAsked, NotAsked)
           .calls.meta > 0
    THEN MetaResponses(parse_video_id(video_input)) ELSE {NotAsked}

TranscriptAsked(st, video_input, meta_resp) ==
    IF load_video(st, video_input, meta_resp, [t |-> "TranscriptsDisabled"],
                  NotAsked).calls.transcript > 0
    THEN TranscriptResponses ELSE {NotAsked}

SummaryAsked(st, video_input, meta_resp, tr_resp) ==
    IF load_video(st, video_input, meta_resp, tr_resp, Raise).calls.summary > 0
    THEN SummaryChains ELSE {NotAsked}

Init == ParseIdle /\ CfgIdle /\ AppStart

Next ==
    \/ \E video_input \in VideoInputs :
           \E meta_resp \in MetaAsked(SessionState, video_input) :
               \E tr_resp \in TranscriptAsked(SessionState, video_input, meta_resp) :
                   \E chain \in SummaryAsked(SessionState, video_input,
                                             meta_resp, tr_resp) :
                       LoadVideo(video_input, meta_resp, tr_resp, chain)
    \/ /\ Truthy(selected_video)
       /\ \E question \in Questions :
              \E embed \in PageEmbedAsked(SessionState, question) :
                  \E invoke \in PageInvokeAsked(SessionState, question, embed) :
                      GetAnswer(question, embed, invoke)

Spec == Init /\ [][Next]_vars

(***************************************************************************)
(* The claims about the knowledge base.                                    *)
(***************************************************************************)
\* The video ids answer_question has been called for.
Asked == {v \in VideoIds : kb_hist.asks_of[v] > 0}

\* C1, as stated: in a sequence of answer_question calls in which no
\* external call fails, build_index is called exactly once for every video
\* id asked about: by the first call for it and by no later call.
C1_BuiltExactlyOnce ==
    ~kb_hist.ext_failed => \A v \in Asked : kb_hist.build_calls[v] = 1

\* C1, amended: in a sequence of answer_question calls in which no external
\* call fails, for every video id whose calls all passed a non-empty chunk
\* sequence, build_index was called exactly once, by the first call; it
\* sent one batch, the chunks of that call, to the embedding service; the
\* stored index is the one over those chunks; and a call that finds it
\* stored makes no build_index call and sends no batch.
C1_BuiltOnceFromChunks ==
    ~kb_hist.ext_failed =>
        \A v \in Asked \ kb_hist.empty_for :
            /\ kb_hist.build_calls[v] = 1
            /\ kb_hist.batches[v] = <<kb_hist.first_docs[v]>>
            /\ v \in DOMAIN _indexes
            /\ _indexes[v] = FAISS(kb_hist.first_docs[v])
            /\ (last.video_id = v /\ kb_hist.asks_of[v] > 1) =>
                   (last.build_calls = 0 /\ last.batches = <<>>
                    /\ last.store = FAISS(kb_hist.first_docs[v]))

\* C1, witness: a second question about a video, passing other chunks than
\* the first, was answered from the index the first question built.
C1_SecondQuestionReuses ==
    \E v \in Asked \ kb_hist.empty_for :
        /\ ~kb_hist.ext_failed
        /\ kb_hist.asks_of[v] = 2
        /\ last.op = "answer_question" /\ last.video_id = v
        /\ last.documents # kb_hist.first_docs[v]
        /\ last.raised = "" /\ last.build_calls = 0
        /\ Truthy(last.answer)

\* A call of answer_question that returned.
Answered == last.op = "answer_question" /\ last.raised = ""

\* The result of chain.invoke is a mapping carrying answer text.
CarriesAnswer(result) ==
    /\ result.t = "dict"
    /\ \E k \in {"result", "output_text"} :
           k \in DOMAIN result.d /\ result.d[k] \notin {None, Str(<<>>)}

\* The answer text a mapping carries: under "result" or, failing that,
\* under "output_text".
CarriedAnswer(result) ==
    IF "result" \in DOMAIN result.d /\ result.d["result"] \notin {None, Str(<<>>)}
    THEN result.d["result"]
    ELSE result.d["output_text"]

\* C6, as stated: answer_question returns the answer text of a mapping that
\* carries it, and the empty string for every other result.
C6_EmptyForUnrecognized ==
    Answered =>
        last.answer = IF CarriesAnswer(last.result)
                      THEN CarriedAnswer(last.result)
                      ELSE Str(<<>>)

\* C6, amended: answer_question returns the answer text of a mapping that
\* carries it, the empty string for a mapping that carries none, and for a
\* result that is not a mapping its string form: the string itself, "None"
\* for None, the decimal digits of an integer.
C6_AnswerText ==
    Answered =>
        last.answer =
            IF CarriesAnswer(last.result) THEN CarriedAnswer(last.result)
            ELSE IF last.result.t = "dict" THEN Str(<<>>)
            ELSE IF last.result.t = "str" THEN last.result
            ELSE IF last.result = None THEN Str(<<"N", "o", "n", "e">>)
            ELSE IF last.result = PyInt(7) THEN Str(<<"7">>)
            ELSE None

\* C6, witness: answer_question returned a plain string result as it is, the
\* text under "output_text" of a mapping with an empty "result", or "" for
\* a mapping without answer text.
C6_ShapesAnswered ==
    /\ Answered
    /\ \/ last.result = Str(TextRaw) /\ last.answer = Str(TextRaw)
       \/ last.result.t = "dict" /\ last.answer = Str(<<>>)
    /\ kb_hist.asks = MaxAsks

\* C7: build_index called without chunks raises, sends nothing to the
\* embedding service and leaves the mapping as it was; get_index returns the
\* stored index or None, sends nothing and leaves the mapping as it was.
C7_EmptyBuildAndLookup ==
    [][ /\ (last'.op = "build_index" /\ last'.documents = <<>>) =>
              /\ last'.raised = "ValueError"
              /\ last'.batches = <<>>
              /\ _indexes' = _indexes
        /\ last'.op = "get_index" =>
              /\ _indexes' = _indexes
              /\ last'.batches = <<>>
              /\ last'.raised = ""
              /\ last'.store = IF last'.video_id \in DOMAIN _indexes
                                THEN _indexes[last'.video_id] ELSE None
      ]_vars

\* C7, witness: build_index without chunks failed for a video that has an
\* index, which is still stored.
C7_EmptyBuildKeepsIndex ==
    /\ last.op = "build_index" /\ last.documents = <<>>
    /\ last.raised = "ValueError"
    /\ last.video_id \in DOMAIN _indexes
    /\ _indexes[last.video_id].docs # <<>>

(***************************************************************************)
(* The claims about the page.                                              *)
(***************************************************************************)
\* The action that led to this state ended in an error: a message shown by
\* st.error, or an exception that left the script.
EndedInError(l) == l.outcome \in {"error", "exception"}

\* C2: a "Load video" or "Get answer" action that ends in an error leaves
\* the video map, the selected video and the last Q&A pair as they were.
C2_ErrorsLeaveSession ==
    [][ EndedInError(last') =>
            /\ videos' = videos
            /\ selected_video' = selected_video
            /\ qa_last_answer' = qa_last_answer ]_vars

\* C2, witness: with two videos loaded and an answer shown, a load whose
\* summarization failed, or a question whose embedding or generation
\* failed, has ended.
C2_FailedWithSessionKept ==
    /\ last.outcome = "exception"
    /\ last.calls.summary = 1 \/ last.calls.batches = 1 \/ last.calls.invoked
    /\ Cardinality(DOMAIN videos) = 2
    /\ qa_last_answer # None

\* The load met an upstream-unavailable condition of the transcript service.
TranscriptUnavailable(l) ==
    l.op = "load" /\ l.transcript \in {"TranscriptsDisabled", "NoTranscriptFound"}

\* The load met the metadata service reporting the video as not found.
MetadataNotFound(l) == l.op = "load" /\ l.meta = "ok" /\ ~l.found

\* The load showed an error, called each service at most once and left the
\* video map as it was.
RefusedWithoutRetry(l, before, after) ==
    /\ l.outcome = "error"
    /\ l.calls.meta <= 1 /\ l.calls.transcript <= 1
    /\ after = before

C9_IndexOverSessionChunks ==
    \A v \in DOMAIN _indexes :
        v \in DOMAIN videos /\ _indexes[v].docs = videos[v].documents

\* C10: a selected video is a key of the video map; a stored Q&A pair is
\* the pair of the last question answered since the most recent successful
\* load, and that load and that question were about the selected video.
C10_SelectionAndLastAnswer ==
    /\ selected_video # None =>
           Truthy(selected_video) /\ selected_video.v \in DOMAIN videos
    /\ qa_last_answer # None =>
           /\ app_hist.loaded = selected_video
           /\ app_hist.since_load =
                  [t |-> "qa", video |-> selected_video,
                   question |-> qa_last_answer.question,
                   answer |-> qa_last_answer.answer]

\* C10, witness: with two videos loaded, an answer about the selected one
\* is stored.
C10_AnswerAboutSelected ==
    /\ Cardinality(DOMAIN videos) = 2
    /\ qa_last_answer # None
    /\ qa_last_answer.answer = TextAns
    /\ app_hist.loaded = selected_video

(***************************************************************************)
(* The claim about parse_video_id.                                         *)
(***************************************************************************)
\* w is a substring of s.
Contains(s, w) ==
    \E i \in 1..(Len(s) - Len(w) + 1) : SubSeq(s, i, i + Len(w) - 1) = w

\* The ids that s contains as v=<id> or /<id>.
IdsIn(s) ==
    {id \in {SubSeq(s, i, i + IdLen - 1) : i \in 1..(Len(s) - IdLen + 1)} :
        /\ FullMatchId(id)
        /\ Contains(s, <<"v", "=">> \o id) \/ Contains(s, <<"/">> \o id)}

\* C3: parse_video_id returns the id for an input that is a valid id and
\* for an input that contains v=<id> or /<id> with that id, and None for
\* an input that is no id and contains no such pattern.
C3_ReturnsContainedId ==
    parse_pc = "done" =>
        /\ FullMatchId(url_or_id) => parsed = Str(url_or_id)
        /\ \A id \in IdsIn(url_or_id) : parsed = Str(id)
        /\ (~FullMatchId(Strip(url_or_id)) /\ IdsIn(url_or_id) = {}) =>
               parsed = None

(***************************************************************************)
(* The claims about the configuration.                                     *)
(***************************************************************************)
\* The variable is absent, empty or whitespace-only.
Blank(value) ==
    value = None \/ \A k \in 1..Len(value.v) : value.v[k] \in Whitespace

\* The names a configuration error has to give for this environment.
NamesOfMissing(e) ==
    IF Blank(e["OPENAI_API_KEY"]) /\ Blank(e["YOUTUBE_API_KEY"])
    THEN <<"OPENAI_API_KEY", ", ", "YOUTUBE_API_KEY">>
    ELSE IF Blank(e["OPENAI_API_KEY"]) THEN <<"OPENAI_API_KEY">>
    ELSE IF Blank(e["YOUTUBE_API_KEY"]) THEN <<"YOUTUBE_API_KEY">>
    ELSE <<>>

\* The names between the head and the tail of a configuration error's
\* message.
NamesIn(message) == SubSeq(message, 2, Len(message) - 2)

\* Every numeric variable that is set converts.
NumbersConvert(e) ==
    /\ \A name \in {"MAX_SUMMARY_TOKENS", "CHUNK_SIZE", "CHUNK_OVERLAP", "TOP_K"} :
           e[name] = None \/ IsInt(e[name].v)
    /\ e["TEMPERATURE"] = None \/ IsFloat(e["TEMPERATURE"].v)

\* Settings.load has just been called with this raise_on_missing.
LoadCalled(raise_on_missing) ==
    cfg_last.op = "load" /\ cfg_last.raise_on_missing = raise_on_missing

\* C4, as stated: Settings.load() fails exactly when a required key is
\* absent, empty or whitespace-only, with a configuration error naming
\* exactly the missing keys in order, and returns a settings record when
\* both are non-empty.
C4_FailsExactlyWhenKeyMissing ==
    LoadCalled(TRUE) =>
        /\ cfg_last.outcome.t # "Settings" <=> NamesOfMissing(env) # <<>>
        /\ cfg_last.outcome.t # "Settings" =>
               /\ cfg_last.outcome.t = "RuntimeError"
               /\ NamesIn(cfg_last.outcome.message) = NamesOfMissing(env)

\* C4, amended: Settings.load with raise_on_missing true (the default)
\* fails with the configuration error exactly when a required key is
\* absent, empty or whitespace-only, and the message names exactly the
\* missing keys in order; with raise_on_missing false it never fails with
\* the configuration error; a load that does not fail with the
\* configuration error returns a settings record exactly when every numeric
\* variable that is set converts, and fails with a ValueError otherwise.
C4_ConfigurationErrorNamesMissing ==
    cfg_last.op = "load" =>
        /\ cfg_last.outcome.t = "RuntimeError" <=>
               (cfg_last.raise_on_missing /\ NamesOfMissing(env) # <<>>)
        /\ cfg_last.outcome.t = "RuntimeError" =>
               /\ NamesIn(cfg_last.outcome.message) = NamesOfMissing(env)
               /\ Len(cfg_last.outcome.message) = Len(NamesOfMissing(env)) + 3
        /\ cfg_last.outcome.t # "RuntimeError" =>
               IF NumbersConvert(env)
               THEN cfg_last.outcome.t = "Settings"
               ELSE cfg_last.outcome.t = "ValueError"

\* C4, witness: Settings.load() has failed with both keys missing.
C4_BothKeysMissing ==
    /\ LoadCalled(TRUE)
    /\ Blank(env["OPENAI_API_KEY"]) /\ Blank(env["YOUTUBE_API_KEY"])
    /\ cfg_last.outcome.t = "RuntimeError"
    /\ cfg_hist.changes > 0

\* C5, as stated: every get_settings call returns what the first call
\* produced, and the environment is not read after the first call.
C5_FirstCallCached ==
    cfg_last.op = "get_settings" =>
        /\ cfg_last.outcome = cfg_hist.first
        /\ ~cfg_hist.read_after_first

\* C5, amended: every get_settings call, from the first one that returns a
\* record on, returns that identical cached record, and the environment is
\* not read again after that call; a call that fails caches nothing.
C5_FirstRecordCached ==
    /\ cfg_hist.returned = NoCall => _SETTINGS = None
    /\ cfg_hist.returned # NoCall =>
           /\ _SETTINGS = cfg_hist.returned
           /\ ~cfg_hist.read_after_returned
           /\ cfg_last.op = "get_settings" =>
                  cfg_last.outcome = cfg_hist.returned

\* C5, witness: get_settings has returned the cached record although the
\* environment would now load differently.
C5_CachedDespiteChange ==
    /\ cfg_last.op = "get_settings"
    /\ cfg_hist.returned # NoCall
    /\ cfg_last.outcome = cfg_hist.returned
    /\ Load(TRUE, env) # cfg_hist.returned

=============================================================================
